---- MODULE Spec2Model ----
(***************************************************************************)
(* A model of comfy2py.py: the Workflow wrapper around a ComfyUI           *)
(* API-format graph, and the command-line entry point that drives it.      *)
(*                                                                         *)
(* Representation                                                          *)
(*   - Python None is the empty tuple, a present value v is <<v>>.         *)
(*   - A file name is a sequence of tokens, so that endswith('.json') and  *)
(*     += '.json' are a test and an append on the last token.              *)
(*   - The workflow document (an insertion-ordered dict) is a sequence of  *)
(*     nodes [id, class_type, inputs]; inputs is a function from the input *)
(*     keys present to their values; a link is a pair <<node id, index>>.  *)
(*   - A file holds JSON text, modelled as tagged JSON values.             *)
(***************************************************************************)
EXTENDS Integers, Sequences, FiniteSets, TLC

VARIABLES
    files,          \* the directory DEFAULT_WORKFLOW_PATH: path -> JSON text
    args,           \* the parsed command line (argparse.Namespace)
    pc,             \* position of __main__, or "new"/"object"/"failed" for a library client
    workflow_name,  \* self.workflow_name
    workflow_data,  \* self.workflow_data
    exc,            \* exception raised by the most recent call, or "none"
    out,            \* lines the most recent call printed
    posts,          \* HTTP requests that reached the network
    ret,            \* value the most recent library call returned
    last,           \* the most recent library call
    prev,           \* the library call before it
    ncalls          \* number of library calls made so far

vars == <<files, args, pc, workflow_name, workflow_data, exc, out, posts,
          ret, last, prev, ncalls>>

-----------------------------------------------------------------------------
(* Bounds of the model *)

MaxCalls == 3       \* library calls made on one Workflow object
MaxSteps == 1       \* values 0..MaxSteps are given to --steps / update_steps
MaxSeed == 1        \* values -1..MaxSeed are given to --seed / update_seed

(* Program constants *)

RandLow == 0
RandHigh == 1000000
DefaultPort == 8188

DEFAULT_WORKFLOW_PATH == "/Users/simondharcourt/Downloads"
DefaultHost == "127.0.0.1"

-----------------------------------------------------------------------------
(* Python values *)

None == <<>>
Some(v) == <<v>>

\* bool(x) for an optional str, an optional int and an optional file name
TruthyStr(o) == o # None /\ o[1] # ""
TruthyInt(o) == o # None /\ o[1] # 0
TruthyName(o) == o # None /\ o[1] # <<>>

\* str.endswith('.json') and s += '.json' on a tokenised name
EndsWithJson(name) == Len(name) > 0 /\ name[Len(name)] = ".json"
WithJson(name) == IF ~EndsWithJson(name) THEN Append(name, ".json") ELSE name

\* os.path.join(DEFAULT_WORKFLOW_PATH, name)
PathJoin(name) == <<DEFAULT_WORKFLOW_PATH>> \o name

\* random.randint(a, b) returns an integer N with a <= N <= b; the range is
\* represented by its two lowest and two highest members.
Randint(a, b) == {a, a + 1, b - 1, b}

-----------------------------------------------------------------------------
(* The document *)

LinkKeys == {"positive", "negative", "model", "conditioning"}
IntKeys == {"steps", "seed"}

Node(id, class_type, inputs) == [id |-> id, class_type |-> class_type, inputs |-> inputs]

Ids(doc) == {doc[i].id : i \in 1..Len(doc)}
HasNode(doc, id) == id \in Ids(doc)
IndexOf(doc, id) == CHOOSE i \in 1..Len(doc) : doc[i].id = id
Has(doc, i, key) == key \in DOMAIN doc[i].inputs

\* first node, in iteration order, whose inputs hold `key`; 0 when there is none
FirstWith(doc, key) ==
    IF \E i \in 1..Len(doc) : Has(doc, i, key)
    THEN CHOOSE i \in 1..Len(doc) :
            Has(doc, i, key) /\ \A j \in 1..(i - 1) : ~Has(doc, j, key)
    ELSE 0

\* d[key] = value on a dict: replaces the value or adds the key
SetItem(inputs, key, value) ==
    [k \in (DOMAIN inputs) \cup {key} |-> IF k = key THEN value ELSE inputs[k]]

\* workflow_data[id]['inputs'][key] = value
SetInput(doc, id, key, value) ==
    [doc EXCEPT ![IndexOf(doc, id)].inputs = SetItem(@, key, value)]

-----------------------------------------------------------------------------
(* json.dump / json.dumps and json.load *)

DumpValue(key, v) ==
    IF key \in LinkKeys THEN <<"array", <<"string", v[1]>>, <<"number", v[2]>>>>
    ELSE IF key \in IntKeys THEN <<"number", v>>
    ELSE <<"string", v>>

LoadValue(j) == IF j[1] = "array" THEN <<j[2][2], j[3][2]>> ELSE j[2]

JsonDump(doc) ==
    [i \in 1..Len(doc) |->
        [name |-> doc[i].id,
         value |-> [class_type |-> <<"string", doc[i].class_type>>,
                    inputs |-> [k \in DOMAIN doc[i].inputs |->
                                    DumpValue(k, doc[i].inputs[k])]]]]

JsonLoad(text) ==
    [i \in 1..Len(text) |->
        Node(text[i].name, text[i].value.class_type[2],
             [k \in DOMAIN text[i].value.inputs |-> LoadValue(text[i].value.inputs[k])])]

-----------------------------------------------------------------------------
(* execution.validate_prompt: the structural validation of the graph; every  *)
(* link of every node must reference a node of the document.                 *)

validate_prompt(doc) ==
    \A i \in 1..Len(doc) : \A k \in (DOMAIN doc[i].inputs) \cap LinkKeys :
        HasNode(doc, doc[i].inputs[k][1])

-----------------------------------------------------------------------------
(* class Workflow *)

\* is_valid as it would be if the validator's answer were always truthy
is_valid_always(doc) == TRUE

is_valid(doc) == validate_prompt(doc)

\* returns the exception raised, self.workflow_name afterwards and the value returned
load_workflow(fs, name) ==
    LET name2 == WithJson(name)
        workflow_path == PathJoin(name2)
    IN  IF workflow_path \notin DOMAIN fs
        THEN [exc |-> "FileNotFoundError", name |-> name2, ret |-> None]
        ELSE [exc |-> "none", name |-> name2, ret |-> Some(JsonLoad(fs[workflow_path]))]

\* Workflow(workflow_name): the exception raised and the two attributes afterwards
\* (workflow_data stays unset, written <<>>, when load_workflow raises)
Workflow(fs, name) ==
    LET l == load_workflow(fs, name)
    IN  IF l.exc # "none"
        THEN [exc |-> l.exc, name |-> l.name, data |-> <<>>]
        ELSE IF ~is_valid(l.ret[1])
             THEN [exc |-> "ValueError", name |-> l.name, data |-> l.ret[1]]
             ELSE [exc |-> "none", name |-> l.name, data |-> l.ret[1]]

\* get_prompt_node_id whose tone test lets every link input through ('model' too)
get_prompt_node_id_any_link(doc, tone) ==
    IF tone \notin LinkKeys
    THEN [exc |-> "ValueError", ret |-> None]
    ELSE LET node == FirstWith(doc, tone)
         IN  IF node # 0
             THEN [exc |-> "none", ret |-> Some(doc[node].inputs[tone][1])]
             ELSE [exc |-> "none", ret |-> None]

\* get_prompt_node_id where the last matching node wins
get_prompt_node_id_last_match(doc, tone) ==
    IF tone \notin {"positive", "negative"}
    THEN [exc |-> "ValueError", ret |-> None]
    ELSE LET matches == {i \in 1..Len(doc) : Has(doc, i, tone)}
         IN  IF matches # {}
             THEN LET node == CHOOSE i \in matches : \A j \in matches : j <= i
                  IN  [exc |-> "none", ret |-> Some(doc[node].inputs[tone][1])]
             ELSE [exc |-> "none", ret |-> None]

get_prompt_node_id(doc, tone) ==
    IF tone \notin {"positive", "negative"}
    THEN [exc |-> "ValueError", ret |-> None]
    ELSE LET node == FirstWith(doc, tone)
         IN  IF node # 0
             THEN [exc |-> "none", ret |-> Some(doc[node].inputs[tone][1])]
             ELSE [exc |-> "none", ret |-> None]

\* update_positive_prompt raising when no node is found, as get_node_id does
update_positive_prompt_raises(doc, prompt) ==
    LET positive_node_id == get_prompt_node_id(doc, "positive").ret
    IN  IF positive_node_id # None
        THEN IF HasNode(doc, positive_node_id[1])
             THEN [exc |-> "none", out |-> <<>>,
                   doc |-> SetInput(doc, positive_node_id[1], "text", prompt)]
             ELSE [exc |-> "KeyError", out |-> <<>>, doc |-> doc]
        ELSE [exc |-> "ValueError", out |-> <<>>, doc |-> doc]

update_positive_prompt(doc, prompt) ==
    LET positive_node_id == get_prompt_node_id(doc, "positive").ret
    IN  IF positive_node_id # None
        THEN IF HasNode(doc, positive_node_id[1])
             THEN [exc |-> "none", out |-> <<>>,
                   doc |-> SetInput(doc, positive_node_id[1], "text", prompt)]
             ELSE [exc |-> "KeyError", out |-> <<>>, doc |-> doc]
        ELSE [exc |-> "none", out |-> <<"No positive node found">>, doc |-> doc]

update_negative_prompt(doc, prompt) ==
    LET negative_node_id == get_prompt_node_id(doc, "negative").ret
    IN  IF negative_node_id # None
        THEN IF HasNode(doc, negative_node_id[1])
             THEN [exc |-> "none", out |-> <<>>,
                   doc |-> SetInput(doc, negative_node_id[1], "text", prompt)]
             ELSE [exc |-> "KeyError", out |-> <<>>, doc |-> doc]
        ELSE [exc |-> "none", out |-> <<"No negative node found">>, doc |-> doc]

\* workflow_data[id]['inputs']['text'] can be read
HasText(doc, id) == HasNode(doc, id) /\ Has(doc, IndexOf(doc, id), "text")
TextOf(doc, id) == doc[IndexOf(doc, id)].inputs["text"]

show_prompts(doc) ==
    LET positive_node_id == get_prompt_node_id(doc, "positive").ret
        negative_node_id == get_prompt_node_id(doc, "negative").ret
        pos == IF positive_node_id # None
               THEN IF HasText(doc, positive_node_id[1])
                    THEN [exc |-> "none",
                          out |-> <<<<"Positive prompt: ", TextOf(doc, positive_node_id[1])>>>>]
                    ELSE [exc |-> "KeyError", out |-> <<>>]
               ELSE [exc |-> "none", out |-> <<>>]
    IN  IF pos.exc # "none" THEN pos
        ELSE IF negative_node_id # None
             THEN IF HasText(doc, negative_node_id[1])
                  THEN [exc |-> "none",
                        out |-> Append(pos.out,
                                  <<"Negative prompt: ", TextOf(doc, negative_node_id[1])>>)]
                  ELSE [exc |-> "KeyError", out |-> pos.out]
             ELSE pos

\* request.Request(f"http://{server_adress}/prompt", data=data): data makes it a POST
PromptRequest(doc, server_adress) ==
    LET prompt == [prompt |-> doc]
        data == <<"object", <<"prompt", JsonDump(prompt.prompt)>>>>
    IN  [method |-> "POST", url |-> <<"http://", server_adress, "/prompt">>, data |-> data]

\* the requests handed to the network: req is built and never opened (the urlopen
\* call is commented out)
queue_prompt(doc, server_adress) ==
    LET req == PromptRequest(doc, server_adress)
    IN  <<>>

\* update_steps without the membership test: steps is set on every node
update_steps_every_node(doc, steps) ==
    [i \in 1..Len(doc) |-> [doc[i] EXCEPT !.inputs = SetItem(@, "steps", steps)]]

update_steps(doc, steps) ==
    [i \in 1..Len(doc) |->
        IF Has(doc, i, "steps")
        THEN [doc[i] EXCEPT !.inputs = SetItem(@, "steps", steps)]
        ELSE doc[i]]

\* rnd[i] is what random.randint(0, 1000000) returns when node i is visited
SeedNodes(doc) == {i \in 1..Len(doc) : Has(doc, i, "seed")}

\* update_seed without the -1 test: the sentinel itself is written
update_seed_no_sentinel(doc, seed, rnd) ==
    [i \in 1..Len(doc) |->
        IF Has(doc, i, "seed")
        THEN [doc[i] EXCEPT !.inputs = SetItem(@, "seed", seed)]
        ELSE doc[i]]

update_seed(doc, seed, rnd) ==
    [i \in 1..Len(doc) |->
        IF Has(doc, i, "seed")
        THEN IF seed = -1
             THEN [doc[i] EXCEPT !.inputs = SetItem(@, "seed", rnd[i])]
             ELSE [doc[i] EXCEPT !.inputs = SetItem(@, "seed", seed)]
        ELSE doc[i]]

\* save_workflow that does not append '.json' to the name it is given
save_workflow_no_suffix(fs, self_name, doc, name) ==
    LET n1 == IF name = None THEN self_name ELSE name[1]
        path == PathJoin(n1)
    IN  [p \in (DOMAIN fs) \cup {path} |-> IF p = path THEN JsonDump(doc) ELSE fs[p]]

\* the directory after save_workflow(workflow_name); name None is the default
save_workflow(fs, self_name, doc, name) ==
    LET n1 == IF name = None THEN self_name ELSE name[1]
        n2 == WithJson(n1)
        path == PathJoin(n2)
    IN  [p \in (DOMAIN fs) \cup {path} |-> IF p = path THEN JsonDump(doc) ELSE fs[p]]

-----------------------------------------------------------------------------
(* Workflow files found in the directory *)

\* one sampler wired to two text encoders and a checkpoint loader
DocBasic ==
    << Node("3", "KSampler",
            [seed |-> 2000000, steps |-> 20, model |-> <<"4", 0>>,
             positive |-> <<"6", 0>>, negative |-> <<"7", 0>>]),
       Node("4", "CheckpointLoaderSimple", <<>>),
       Node("6", "CLIPTextEncode", [text |-> "old"]),
       Node("7", "CLIPTextEncode", [text |-> "bad"]) >>

\* no node has a positive or a negative input
DocNoTone ==
    << Node("6", "CLIPTextEncode", [text |-> "old"]),
       Node("12", "BasicScheduler", [steps |-> 20, model |-> <<"4", 0>>]),
       Node("4", "CheckpointLoaderSimple", <<>>),
       Node("13", "Noise", [seed |-> 2000000]) >>

\* two samplers whose positive links differ; the text encoders come first
DocTwoSamplers ==
    << Node("6", "CLIPTextEncode", [text |-> "old"]),
       Node("9", "CLIPTextEncode", [text |-> "other"]),
       Node("3", "KSampler",
            [seed |-> 2000000, steps |-> 20, positive |-> <<"6", 0>>]),
       Node("8", "KSampler",
            [seed |-> 3000000, steps |-> 30, positive |-> <<"9", 0>>,
             negative |-> <<"6", 0>>]) >>

\* the positive conditioning passes through a ControlNet node, which has no text
DocControlNet ==
    << Node("3", "KSampler",
            [seed |-> 2000000, steps |-> 20,
             positive |-> <<"10", 0>>, negative |-> <<"7", 0>>]),
       Node("10", "ControlNetApply", [conditioning |-> <<"6", 0>>]),
       Node("6", "CLIPTextEncode", [text |-> "old"]),
       Node("7", "CLIPTextEncode", [text |-> "bad"]) >>

\* a link to a node that is not in the document
DocDangling ==
    << Node("3", "KSampler",
            [seed |-> 2000000, steps |-> 20,
             positive |-> <<"99", 0>>, negative |-> <<"7", 0>>]),
       Node("7", "CLIPTextEncode", [text |-> "bad"]) >>

Docs == {DocBasic, DocNoTone, DocTwoSamplers, DocControlNet, DocDangling}

WfFile == <<"wf", ".json">>

InitFiles == {[p \in {PathJoin(WfFile)} |-> JsonDump(d)] : d \in Docs}

Opt(S) == {None} \cup {Some(v) : v \in S}

NoCall == [op |-> "none", str |-> "", int |-> 0, name |-> None]
Call(op, str, int, name) == [op |-> op, str |-> str, int |-> int, name |-> name]

-----------------------------------------------------------------------------
(* The command line: parse_args and __main__ *)

parse_args ==
    [workflow : {<<"wf">>, WfFile, <<"absent">>},
     prompt : Opt({"", "cat"}),
     neg_prompt : Opt({"dog"}),
     steps : Opt(0..MaxSteps),
     seed : Opt(-1..MaxSeed),
     port : {DefaultPort},
     host : {DefaultHost},
     save : Opt({<<"wf">>, <<"out", ".json">>})]

Init ==
    /\ files \in InitFiles
    /\ args \in parse_args
    /\ pc = "main"
    /\ workflow_name = <<>>
    /\ workflow_data = <<>>
    /\ exc = "none"
    /\ out = <<>>
    /\ posts = <<>>
    /\ ret = None
    /\ last = NoCall
    /\ prev = NoCall
    /\ ncalls = 0

server_address == <<args.host, ":", args.port>>

After(e, next) == IF e = "none" THEN next ELSE "crashed"

\* workflow = Workflow(args.workflow)
MainWorkflow ==
    /\ pc = "main"
    /\ LET w == Workflow(files, args.workflow)
       IN  /\ workflow_name' = w.name
           /\ workflow_data' = w.data
           /\ exc' = w.exc
           /\ pc' = After(w.exc, "prompt")
    /\ out' = <<>>
    /\ UNCHANGED <<files, args, posts, ret, last, prev, ncalls>>

\* if args.prompt: workflow.update_positive_prompt(args.prompt)
MainPrompt ==
    /\ pc = "prompt"
    /\ LET r == IF TruthyStr(args.prompt)
                THEN update_positive_prompt(workflow_data, args.prompt[1])
                ELSE [exc |-> "none", out |-> <<>>, doc |-> workflow_data]
       IN  /\ workflow_data' = r.doc
           /\ exc' = r.exc
           /\ out' = r.out
           /\ pc' = After(r.exc, "neg_prompt")
    /\ UNCHANGED <<files, args, workflow_name, posts, ret, last, prev, ncalls>>

\* if args.neg_prompt: workflow.update_negative_prompt(args.neg_prompt)
MainNegPrompt ==
    /\ pc = "neg_prompt"
    /\ LET r == IF TruthyStr(args.neg_prompt)
                THEN update_negative_prompt(workflow_data, args.neg_prompt[1])
                ELSE [exc |-> "none", out |-> <<>>, doc |-> workflow_data]
       IN  /\ workflow_data' = r.doc
           /\ exc' = r.exc
           /\ out' = r.out
           /\ pc' = After(r.exc, "steps")
    /\ UNCHANGED <<files, args, workflow_name, posts, ret, last, prev, ncalls>>

\* if args.steps: workflow.update_steps(args.steps)
MainSteps ==
    /\ pc = "steps"
    /\ workflow_data' = IF TruthyInt(args.steps)
                        THEN update_steps(workflow_data, args.steps[1])
                        ELSE workflow_data
    /\ exc' = "none"
    /\ out' = <<>>
    /\ pc' = "seed"
    /\ UNCHANGED <<files, args, workflow_name, posts, ret, last, prev, ncalls>>

\* if args.seed: workflow.update_seed(args.seed)
MainSeed ==
    /\ pc = "seed"
    /\ \E rnd \in [SeedNodes(workflow_data) -> Randint(RandLow, RandHigh)] :
          workflow_data' = IF TruthyInt(args.seed)
                           THEN update_seed(workflow_data, args.seed[1], rnd)
                           ELSE workflow_data
    /\ exc' = "none"
    /\ out' = <<>>
    /\ pc' = "save"
    /\ UNCHANGED <<files, args, workflow_name, posts, ret, last, prev, ncalls>>

\* if args.save: workflow.save_workflow(args.save)
MainSave ==
    /\ pc = "save"
    /\ files' = IF TruthyName(args.save)
                THEN save_workflow(files, workflow_name, workflow_data, args.save)
                ELSE files
    /\ exc' = "none"
    /\ out' = <<>>
    /\ pc' = "queue"
    /\ UNCHANGED <<args, workflow_name, workflow_data, posts, ret, last, prev, ncalls>>

\* workflow.queue_prompt(server_address)
MainQueue ==
    /\ pc = "queue"
    /\ posts' = posts \o queue_prompt(workflow_data, server_address)
    /\ exc' = "none"
    /\ out' = <<>>
    /\ pc' = "done"
    /\ UNCHANGED <<files, args, workflow_name, workflow_data, ret, last, prev, ncalls>>

Next ==
    \/ MainWorkflow
    \/ MainPrompt
    \/ MainNegPrompt
    \/ MainSteps
    \/ MainSeed
    \/ MainSave
    \/ MainQueue

Spec == Init /\ [][Next]_vars

-----------------------------------------------------------------------------
(* A client of the class: it constructs one Workflow and calls its methods in  *)
(* any order, continuing after a call that raised.                            *)

NoArgs ==
    [workflow |-> <<>>, prompt |-> None, neg_prompt |-> None, steps |-> None,
     seed |-> None, port |-> DefaultPort, host |-> DefaultHost, save |-> None]

LibInit ==
    /\ files \in InitFiles
    /\ args = NoArgs
    /\ pc = "new"
    /\ workflow_name = <<>>
    /\ workflow_data = <<>>
    /\ exc = "none"
    /\ out = <<>>
    /\ posts = <<>>
    /\ ret = None
    /\ last = NoCall
    /\ prev = NoCall
    /\ ncalls = 0

Ready == pc = "object" /\ ncalls < MaxCalls

Record(op, str, int, name) ==
    /\ prev' = last
    /\ last' = Call(op, str, int, name)
    /\ ncalls' = ncalls + 1

\* Workflow(name)
New ==
    /\ pc = "new"
    /\ \E name \in {<<"wf">>, WfFile, <<"absent">>} :
          LET w == Workflow(files, name)
          IN  /\ workflow_name' = w.name
              /\ workflow_data' = w.data
              /\ exc' = w.exc
              /\ pc' = IF w.exc = "none" THEN "object" ELSE "failed"
    /\ UNCHANGED <<files, args, out, posts, ret, last, prev, ncalls>>

CallLoadWorkflow ==
    /\ Ready
    /\ LET r == load_workflow(files, workflow_name)
       IN  /\ workflow_name' = r.name
           /\ exc' = r.exc
           /\ ret' = r.ret
    /\ out' = <<>>
    /\ Record("load_workflow", "", 0, None)
    /\ UNCHANGED <<files, args, pc, workflow_data, posts>>

CallGetPromptNodeId ==
    /\ Ready
    /\ \E tone \in {"positive", "negative", "model", "text"} :
          LET r == get_prompt_node_id(workflow_data, tone)
          IN  /\ exc' = r.exc
              /\ ret' = r.ret
              /\ Record("get_prompt_node_id", tone, 0, None)
    /\ out' = <<>>
    /\ UNCHANGED <<files, args, pc, workflow_name, workflow_data, posts>>

CallUpdatePositivePrompt ==
    /\ Ready
    /\ \E prompt \in {"", "cat"} :
          LET r == update_positive_prompt(workflow_data, prompt)
          IN  /\ workflow_data' = r.doc
              /\ exc' = r.exc
              /\ out' = r.out
              /\ Record("update_positive_prompt", prompt, 0, None)
    /\ ret' = None
    /\ UNCHANGED <<files, args, pc, workflow_name, posts>>

CallUpdateNegativePrompt ==
    /\ Ready
    /\ \E prompt \in {"dog"} :
          LET r == update_negative_prompt(workflow_data, prompt)
          IN  /\ workflow_data' = r.doc
              /\ exc' = r.exc
              /\ out' = r.out
              /\ Record("update_negative_prompt", prompt, 0, None)
    /\ ret' = None
    /\ UNCHANGED <<files, args, pc, workflow_name, posts>>

CallShowPrompts ==
    /\ Ready
    /\ LET r == show_prompts(workflow_data)
       IN  /\ exc' = r.exc
           /\ out' = r.out
    /\ ret' = None
    /\ Record("show_prompts", "", 0, None)
    /\ UNCHANGED <<files, args, pc, workflow_name, workflow_data, posts>>

CallQueuePrompt ==
    /\ Ready
    /\ posts' = posts \o queue_prompt(workflow_data, <<DefaultHost, ":", DefaultPort>>)
    /\ exc' = "none"
    /\ out' = <<>>
    /\ ret' = None
    /\ Record("queue_prompt", "", 0, None)
    /\ UNCHANGED <<files, args, pc, workflow_name, workflow_data>>

CallUpdateSteps ==
    /\ Ready
    /\ \E steps \in 0..MaxSteps :
          /\ workflow_data' = update_steps(workflow_data, steps)
          /\ Record("update_steps", "", steps, None)
    /\ exc' = "none"
    /\ out' = <<>>
    /\ ret' = None
    /\ UNCHANGED <<files, args, pc, workflow_name, posts>>

\* the draws of random.randint, one for each node visited; none when seed # -1
Draws(doc, seed) ==
    IF seed = -1
    THEN [SeedNodes(doc) -> Randint(RandLow, RandHigh)]
    ELSE {[i \in SeedNodes(doc) |-> seed]}

CallUpdateSeed ==
    /\ Ready
    /\ \E seed \in -1..MaxSeed :
          \E rnd \in Draws(workflow_data, seed) :
              /\ workflow_data' = update_seed(workflow_data, seed, rnd)
              /\ Record("update_seed", "", seed, None)
    /\ exc' = "none"
    /\ out' = <<>>
    /\ ret' = None
    /\ UNCHANGED <<files, args, pc, workflow_name, posts>>

CallSaveWorkflow ==
    /\ Ready
    /\ \E name \in Opt({<<"wf">>, WfFile, <<"out">>}) :
          /\ files' = save_workflow(files, workflow_name, workflow_data, name)
          /\ Record("save_workflow", "", 0, name)
    /\ exc' = "none"
    /\ out' = <<>>
    /\ ret' = None
    /\ UNCHANGED <<args, pc, workflow_name, workflow_data, posts>>

LibNext ==
    \/ New
    \/ CallLoadWorkflow
    \/ CallGetPromptNodeId
    \/ CallUpdatePositivePrompt
    \/ CallUpdateNegativePrompt
    \/ CallShowPrompts
    \/ CallQueuePrompt
    \/ CallUpdateSteps
    \/ CallUpdateSeed
    \/ CallSaveWorkflow

LibSpec == LibInit /\ [][LibNext]_vars

\* a sequential program: a step that can be taken is taken
FairSpec == Spec /\ WF_vars(Next)

-----------------------------------------------------------------------------
(* Claims about a command-line run *)

\* C1: in a run whose workflow loads, exactly one POST to
\* http://<host>:<port>/prompt with body {"prompt": <document>} is sent, and only
\* at the end, after the updates and the save.
C1_SubmitPostsDocumentOnce ==
    /\ pc = "done" => posts = <<PromptRequest(workflow_data, server_address)>>
    /\ pc # "done" => posts = <<>>

\* C2: a document the validator rejects makes the constructor raise ValueError:
\* an in-memory document that fails validation exists only in the run that has
\* stopped at construction, with nothing written and nothing sent.
C2_InvalidRejectedAtConstruction ==
    ~validate_prompt(workflow_data) =>
        /\ pc = "crashed"
        /\ exc = "ValueError"
        /\ files \in InitFiles
        /\ posts = <<>>

C2_Witness ==
    /\ pc = "crashed"
    /\ exc = "ValueError"
    /\ workflow_data = DocDangling

\* C7: a prompt update that finds no node with the tone key raises nothing, leaves
\* the document as it was and prints one warning; the run goes on to the next
\* stage and from there to the submission.
NoToneStep(stage, given, tone) ==
    pc = stage /\ TruthyStr(given) /\ FirstWith(workflow_data, tone) = 0

Warned ==
    \/ pc = "neg_prompt" /\ out = <<"No positive node found">>
    \/ pc = "steps" /\ out = <<"No negative node found">>

C7_MissingToneWarnsAndContinues ==
    /\ [][NoToneStep("prompt", args.prompt, "positive") =>
            /\ workflow_data' = workflow_data
            /\ exc' = "none"
            /\ out' = <<"No positive node found">>
            /\ pc' = "neg_prompt"]_vars
    /\ [][NoToneStep("neg_prompt", args.neg_prompt, "negative") =>
            /\ workflow_data' = workflow_data
            /\ exc' = "none"
            /\ out' = <<"No negative node found">>
            /\ pc' = "steps"]_vars
    /\ (Warned ~> pc = "done")

C7_Witness ==
    /\ pc = "done"
    /\ TruthyStr(args.prompt)
    /\ TruthyStr(args.neg_prompt)
    /\ FirstWith(workflow_data, "positive") = 0
    /\ FirstWith(workflow_data, "negative") = 0
    /\ \E i \in 1..Len(workflow_data) :
          Has(workflow_data, i, "steps") /\ workflow_data[i].inputs["steps"] = MaxSteps

\* C9: every override given on the command line is in the submitted document:
\* any --steps value on every node with a steps input, any --seed value other
\* than -1 on every node with a seed input.
C9_OverridesApplied ==
    pc = "done" =>
        /\ args.steps # None =>
              \A i \in 1..Len(workflow_data) :
                  Has(workflow_data, i, "steps") =>
                      workflow_data[i].inputs["steps"] = args.steps[1]
        /\ (args.seed # None /\ args.seed[1] # -1) =>
              \A i \in 1..Len(workflow_data) :
                  Has(workflow_data, i, "seed") =>
                      workflow_data[i].inputs["seed"] = args.seed[1]

-----------------------------------------------------------------------------
(* Claims about the methods of Workflow *)

\* the step is a call of method op
Calls(op) == ncalls' = ncalls + 1 /\ last'.op = op

Lines(o) == {o[i] : i \in 1..Len(o)}

\* C3 as stated: after update_seed(-1) every node with a seed input holds an
\* integer v with 0 <= v < 1,000,000.
C3_SeedBelowMillion ==
    (last.op = "update_seed" /\ last.int = -1) =>
        \A i \in SeedNodes(workflow_data) :
            /\ 0 <= workflow_data[i].inputs["seed"]
            /\ workflow_data[i].inputs["seed"] < 1000000

\* C3 amended: after update_seed(-1) every node with a seed input holds an
\* integer v with 0 <= v <= 1,000,000 (both ends included).
C3_SeedWithinRandintRange ==
    (last.op = "update_seed" /\ last.int = -1) =>
        \A i \in SeedNodes(workflow_data) :
            /\ 0 <= workflow_data[i].inputs["seed"]
            /\ workflow_data[i].inputs["seed"] <= 1000000

C3_Witness ==
    /\ last.op = "update_seed"
    /\ last.int = -1
    /\ Cardinality(SeedNodes(workflow_data)) = 2
    /\ \E i, j \in SeedNodes(workflow_data) :
          /\ workflow_data[i].inputs["seed"] = 1000000
          /\ workflow_data[j].inputs["seed"] = 0

\* C4: update_steps(n) sets steps to n on exactly the nodes that had a steps
\* input; the nodes, their order and every other input are as before.
C4_UpdateStepsFrame ==
    [][Calls("update_steps") =>
        /\ Len(workflow_data') = Len(workflow_data)
        /\ \A i \in 1..Len(workflow_data) :
              /\ workflow_data'[i].id = workflow_data[i].id
              /\ workflow_data'[i].class_type = workflow_data[i].class_type
              /\ DOMAIN workflow_data'[i].inputs = DOMAIN workflow_data[i].inputs
              /\ \A k \in DOMAIN workflow_data[i].inputs :
                    workflow_data'[i].inputs[k] =
                        IF k = "steps" THEN last'.int ELSE workflow_data[i].inputs[k]]_vars

C4_Witness ==
    /\ last.op = "update_steps"
    /\ \E i, j, k \in 1..Len(workflow_data) :
          /\ i # j
          /\ Has(workflow_data, i, "steps") /\ workflow_data[i].inputs["steps"] = last.int
          /\ Has(workflow_data, j, "steps") /\ workflow_data[j].inputs["steps"] = last.int
          /\ ~Has(workflow_data, k, "steps")

\* C5: save_workflow() with no name, or with the workflow's own name with or
\* without the .json suffix, followed by load_workflow() returns a document equal
\* to the in-memory document.
OwnName(name) ==
    \/ name = None
    \/ name = Some(workflow_name)
    \/ name = Some(SubSeq(workflow_name, 1, Len(workflow_name) - 1))

C5_SaveLoadRoundTrip ==
    (last.op = "load_workflow" /\ prev.op = "save_workflow" /\ OwnName(prev.name)) =>
        /\ exc = "none"
        /\ ret = Some(workflow_data)

C5_Witness ==
    /\ last.op = "load_workflow"
    /\ prev.op = "save_workflow"
    /\ prev.name = Some(<<"wf">>)
    /\ workflow_data \notin Docs
    /\ ret = Some(workflow_data)

\* C6: when a node has the tone's link, update_positive_prompt(p) followed by
\* show_prompts displays p as the positive prompt, and update_negative_prompt(p)
\* followed by show_prompts displays p as the negative prompt.
C6_ShowPromptsDisplaysUpdate ==
    /\ (last.op = "show_prompts" /\ prev.op = "update_positive_prompt"
            /\ FirstWith(workflow_data, "positive") # 0) =>
          <<"Positive prompt: ", prev.str>> \in Lines(out)
    /\ (last.op = "show_prompts" /\ prev.op = "update_negative_prompt"
            /\ FirstWith(workflow_data, "negative") # 0) =>
          <<"Negative prompt: ", prev.str>> \in Lines(out)

\* C8: get_prompt_node_id(tone) raises ValueError for every tone other than
\* "positive" and "negative", whatever the document holds, and changes nothing.
C8_UnsupportedToneRaises ==
    [][(Calls("get_prompt_node_id") /\ last'.str \notin {"positive", "negative"}) =>
        /\ exc' = "ValueError"
        /\ ret' = None
        /\ workflow_data' = workflow_data
        /\ files' = files]_vars

C8_Witness ==
    /\ last.op = "get_prompt_node_id"
    /\ last.str = "model"
    /\ FirstWith(workflow_data, "model") # 0
    /\ exc = "ValueError"

\* C10: update_positive_prompt / update_negative_prompt change at most the text
\* input of the node named by the link under the tone key in the first node that
\* has that key; node ids, every other node and every other input stay.
PromptFrame(tone) ==
    LET first == FirstWith(workflow_data, tone)
    IN  /\ Len(workflow_data') = Len(workflow_data)
        /\ \A j \in 1..Len(workflow_data) :
              /\ workflow_data'[j].id = workflow_data[j].id
              /\ workflow_data'[j].class_type = workflow_data[j].class_type
              /\ DOMAIN workflow_data'[j].inputs \subseteq
                    (DOMAIN workflow_data[j].inputs) \cup {"text"}
              /\ \A k \in (DOMAIN workflow_data[j].inputs) \ {"text"} :
                    /\ k \in DOMAIN workflow_data'[j].inputs
                    /\ workflow_data'[j].inputs[k] = workflow_data[j].inputs[k]
              /\ (first = 0 \/ workflow_data[j].id # workflow_data[first].inputs[tone][1]) =>
                    workflow_data'[j] = workflow_data[j]

C10_PromptUpdateFrame ==
    /\ [][Calls("update_positive_prompt") => PromptFrame("positive")]_vars
    /\ [][Calls("update_negative_prompt") => PromptFrame("negative")]_vars

C10_Witness ==
    /\ last.op = "update_positive_prompt"
    /\ last.str = "cat"
    /\ Len(workflow_data) = Len(DocTwoSamplers)
    /\ \A j \in 1..Len(workflow_data) :
          workflow_data[j] =
              IF j = 1 THEN [DocTwoSamplers[1] EXCEPT !.inputs["text"] = "cat"]
              ELSE DocTwoSamplers[j]

====
